---- MODULE Spec2Model ----
(***************************************************************************)
(* A model of the Dashboard_Generator mail-merge tool (Shopfully_Tool.py): *)
(* the cell formatter, the row selector, the file-name builder, the        *)
(* placeholder substitutor and the batch driver that writes one document   *)
(* per selected row into a run folder and archives the folder.             *)
(*                                                                         *)
(* Text is modelled as a sequence of one-character strings, so that        *)
(* formatting, stripping, splitting and token replacement are computed on  *)
(* characters as the Python code computes them.                            *)
(***************************************************************************)
EXTENDS Integers, Sequences, FiniteSets, TLC

(***************************************************************************)
(* Bounds of the model.                                                    *)
(***************************************************************************)
\* numeric cell values are fixed-point numbers in thousandths, |v| <= MaxMilli/1000
MaxMilli == 600
\* number formats are strings of at most MaxFmtLen characters
MaxFmtLen == 2

(***************************************************************************)
(* Cell values: Python's None, float('nan'), int, float, str and datetime. *)
(* A float is held in thousandths (n = 5250 is 5.25); an int as itself.    *)
(***************************************************************************)
NoDate == <<1, 1, 2000>>

PyNone == [kind |-> "none", n |-> 0, s |-> <<>>, d |-> NoDate]

PyNaN == [kind |-> "nan", n |-> 0, s |-> <<>>, d |-> NoDate]

PyInt(i) == [kind |-> "int", n |-> i, s |-> <<>>, d |-> NoDate]

PyFloat(k) == [kind |-> "float", n |-> k, s |-> <<>>, d |-> NoDate]

PyStr(chars) == [kind |-> "str", n |-> 0, s |-> chars, d |-> NoDate]

PyDate(day, month, year) == [kind |-> "date", n |-> 0, s |-> <<>>, d |-> <<day, month, year>>]

(***************************************************************************)
(* Character-level helpers: the Python string operations the code uses.    *)
(***************************************************************************)
Abs(i) == IF i < 0 THEN -i ELSE i

DigitChar(i) == <<"0", "1", "2", "3", "4", "5", "6", "7", "8", "9">>[i + 1]

RECURSIVE NatStr(_)
NatStr(i) == IF i < 10 THEN <<DigitChar(i)>> ELSE NatStr(i \div 10) \o <<DigitChar(i % 10)>>

\* str(i) of a Python int
IntStr(i) == IF i < 0 THEN <<"-">> \o NatStr(-i) ELSE NatStr(i)

\* s.rstrip(chars)
RECURSIVE rstrip(_, _)
rstrip(s, chars) ==
    IF s # <<>> /\ s[Len(s)] \in chars THEN rstrip(SubSeq(s, 1, Len(s) - 1), chars) ELSE s

\* s.lstrip(chars)
RECURSIVE lstrip(_, _)
lstrip(s, chars) ==
    IF s # <<>> /\ s[1] \in chars THEN lstrip(Tail(s), chars) ELSE s

\* sub in s (substring test)
Contains(s, sub) ==
    \E i \in 1..(Len(s) - Len(sub) + 1) : SubSeq(s, i, i + Len(sub) - 1) = sub

\* sep.join(parts)
RECURSIVE join(_, _)
join(sep, parts) ==
    IF parts = <<>> THEN <<>>
    ELSE IF Len(parts) = 1 THEN parts[1]
    ELSE parts[1] \o sep \o join(sep, Tail(parts))

(***************************************************************************)
(* Python float arithmetic on the modelled values.                         *)
(*                                                                         *)
(* round(x, 1) rounds the binary double correctly, ties to even.  A value  *)
(* whose thousandths end in 50 is a tie only on paper: x.25 and x.75 are   *)
(* exact doubles (ties, to even: 5.25 -> 5.2, 0.75 -> 0.8), every other    *)
(* one is stored slightly above or below and rounds accordingly.           *)
(* HalfRoundsUp lists the magnitudes k/1000 < 6, k % 100 = 50, that        *)
(* round(k/1000, 1) takes upwards; round is symmetric in the sign.         *)
(***************************************************************************)
HalfRoundsUp ==
    {50, 450, 550, 650, 750, 1050, 1350, 1550, 1750, 1850, 2350, 2450, 2750,
     2850, 2950, 3350, 3450, 3750, 3850, 3950, 4150, 4450, 4650, 4750, 4950,
     5150, 5450, 5650, 5750, 5950}

\* round(value, 1) as sign and magnitude in tenths (the sign survives a zero: -0.0)
round1(value) ==
    IF value.kind = "int"
    THEN [neg |-> value.n < 0, tenths |-> 10 * Abs(value.n)]
    ELSE LET a == Abs(value.n)
             q == a \div 100
             r == a % 100
         IN  [neg |-> value.n < 0,
              tenths |-> IF r > 50 \/ (r = 50 /\ a \in HalfRoundsUp) THEN q + 1 ELSE q]

\* round(value * 100, 1) as sign and magnitude in tenths
round1_times100(value) ==
    IF value.kind = "int"
    THEN [neg |-> value.n < 0, tenths |-> 1000 * Abs(value.n)]
    ELSE [neg |-> value.n < 0, tenths |-> Abs(value.n)]

\* f"{x:.1f}"
Fixed1f(x) ==
    (IF x.neg THEN <<"-">> ELSE <<>>) \o NatStr(x.tenths \div 10) \o <<".", DigitChar(x.tenths % 10)>>

\* f"{x:.1f}" of a NaN is "nan"; rstrip('0').rstrip('.') leaves it alone
StrippedNumber(value) ==
    IF value.kind = "nan" THEN <<"n", "a", "n">>
    ELSE rstrip(rstrip(Fixed1f(round1(value)), {"0"}), {"."})

Pad2(i) == IF i < 10 THEN <<"0">> \o NatStr(i) ELSE NatStr(i)

Pad4(i) == IF i < 10 THEN <<"0", "0", "0">> \o NatStr(i)
           ELSE IF i < 100 THEN <<"0", "0">> \o NatStr(i)
           ELSE IF i < 1000 THEN <<"0">> \o NatStr(i) ELSE NatStr(i)

\* repr of a float held in thousandths: shortest digits, at least one decimal
FloatRepr(k) ==
    LET a == Abs(k)
        frac == <<DigitChar((a % 1000) \div 100), DigitChar((a % 100) \div 10), DigitChar(a % 10)>>
        cut == rstrip(frac, {"0"})
    IN  (IF k < 0 THEN <<"-">> ELSE <<>>) \o NatStr(a \div 1000) \o <<".">>
            \o (IF cut = <<>> THEN <<"0">> ELSE cut)

\* str(value)
str(value) ==
    CASE value.kind = "none" -> <<"N", "o", "n", "e">>
      [] value.kind = "nan" -> <<"n", "a", "n">>
      [] value.kind = "int" -> IntStr(value.n)
      [] value.kind = "float" -> FloatRepr(value.n)
      [] value.kind = "str" -> value.s
      [] value.kind = "date" ->
            Pad4(value.d[3]) \o <<"-">> \o Pad2(value.d[2]) \o <<"-">> \o Pad2(value.d[1])
                \o <<" ", "0", "0", ":", "0", "0", ":", "0", "0">>

\* isinstance(value, (int, float))
IsNumber(value) == value.kind \in {"int", "float", "nan"}

(***************************************************************************)
(* format_cell_value(value, wb, sheet_name, cell_coordinate): cell_format  *)
(* is wb[sheet_name][cell_coordinate].number_format, has_coordinate the    *)
(* truth value of cell_coordinate.                                         *)
(***************************************************************************)
\* re.sub(r'[^\d.%€$£]', '', cell_format)
KeptInFormat == {"0", "1", "2", "3", "4", "5", "6", "7", "8", "9", ".", "%", "€", "$", "£"}

cleaned_format(cell_format) == SelectSeq(cell_format, LAMBDA c : c \in KeptInFormat)

CurrencySymbols == <<"€", "$", "£">>

\* next((symbol for symbol in ["€", "$", "£"] if symbol in cleaned_format), "")
currency_symbol(cleaned) ==
    LET hits == {i \in 1..Len(CurrencySymbols) : Contains(cleaned, <<CurrencySymbols[i]>>)}
    IN  IF hits = {} THEN <<>>
        ELSE <<CurrencySymbols[CHOOSE i \in hits : \A j \in hits : i <= j]>>

\* the percentage branch; on an int, is_integer() is the int method of Python 3.12
PercentText(value) ==
    IF value.kind = "nan" THEN <<"n", "a", "n", "%">>
    ELSE LET percentage == round1_times100(value)
         IN  IF percentage.tenths % 10 = 0
             THEN IntStr((IF percentage.neg THEN -1 ELSE 1) * (percentage.tenths \div 10)) \o <<"%">>
             ELSE Fixed1f(percentage) \o <<"%">>

\* the formatter with the percentage test ahead of the currency test
format_cell_value_percent_first(value, cell_format, has_coordinate) ==
    IF value.kind = "none" THEN <<>>
    ELSE IF IsNumber(value) /\ has_coordinate
    THEN LET cleaned == cleaned_format(cell_format)
             symbol == currency_symbol(cleaned)
         IN  IF Contains(cleaned, <<"%">>) THEN PercentText(value)
             ELSE IF symbol # <<>> THEN StrippedNumber(value) \o <<" ">> \o symbol
             ELSE StrippedNumber(value)
    ELSE IF value.kind = "date"
    THEN Pad2(value.d[1]) \o <<"-">> \o Pad2(value.d[2]) \o <<"-">> \o Pad4(value.d[3])
    ELSE str(value)

format_cell_value(value, cell_format, has_coordinate) ==
    IF value.kind = "none" THEN <<>>
    ELSE IF IsNumber(value) /\ has_coordinate
    THEN LET cleaned == cleaned_format(cell_format)
             symbol == currency_symbol(cleaned)
         IN  IF symbol # <<>> THEN StrippedNumber(value) \o <<" ">> \o symbol
             ELSE IF Contains(cleaned, <<"%">>) THEN PercentText(value)
             ELSE StrippedNumber(value)
    ELSE IF value.kind = "date"
    THEN Pad2(value.d[1]) \o <<"-">> \o Pad2(value.d[2]) \o <<"-">> \o Pad4(value.d[3])
    ELSE str(value)

(***************************************************************************)
(* A table row as the driver sees it (a pandas Series): index holds the    *)
(* column names in column order, values the cell values in the same order. *)
(***************************************************************************)
Range(f) == {f[i] : i \in DOMAIN f}

RowHas(row, col) == col \in Range(row.index)

RowGet(row, col) == row.values[CHOOSE i \in DOMAIN row.index : row.index[i] = col]

(***************************************************************************)
(* get_filename_from_selection(row, selected_columns)                      *)
(***************************************************************************)
\* str(row[col]) in every case: the variant without the integer elision
file_name_part_no_elision(value) == str(value)

\* str(int(v)) if isinstance(v, float) and v.is_integer() else str(v)
file_name_part(value) ==
    IF value.kind = "float" /\ value.n % 1000 = 0
    THEN IntStr(value.n \div 1000)
    ELSE str(value)

get_filename_from_selection(row, selected_columns) ==
    LET present == SelectSeq(selected_columns, LAMBDA col : RowHas(row, col))
        file_name_parts == [i \in 1..Len(present) |-> file_name_part(RowGet(row, present[i]))]
    IN  join(<<"_">>, file_name_parts)

(***************************************************************************)
(* Row selection of process_files.  df1 is the sequence of data rows; a    *)
(* row's label is its 0-based position (a RangeIndex), its spreadsheet row *)
(* number is label + 2.  A selection is the sequence of selected labels.   *)
(***************************************************************************)
\* the labels of df.iloc[start:stop] on n rows, with Python's slice rules
iloc_slice(n, start, stop) ==
    LET clip(i) == IF i < 0 THEN (IF n + i < 0 THEN 0 ELSE n + i) ELSE (IF i > n THEN n ELSE i)
        lo == clip(start)
        hi == clip(stop)
    IN  [i \in 1..(IF hi > lo THEN hi - lo ELSE 0) |-> lo + i - 1]

\* s.split(sep) for a one-character sep
RECURSIVE split(_, _)
split(s, sep) ==
    LET at == {i \in 1..Len(s) : s[i] = sep}
    IN  IF at = {} THEN <<s>>
        ELSE LET i == CHOOSE i \in at : \A j \in at : i <= j
             IN  <<SubSeq(s, 1, i - 1)>> \o split(SubSeq(s, i + 1, Len(s)), sep)

Whitespace == {" "}

\* s.strip()
strip(s) == lstrip(rstrip(s, Whitespace), Whitespace)

\* [store_id for store_id in store_ids.split(',')]: the variant that forgets strip()
store_id_list_unstripped(store_ids) == split(store_ids, ",")

\* [store_id.strip() for store_id in store_ids.split(',')]
store_id_list(store_ids) ==
    LET pieces == split(store_ids, ",")
    IN  [i \in 1..Len(pieces) |-> strip(pieces[i])]

\* the labels kept by a boolean mask, in table order
RECURSIVE masked(_, _)
masked(n, keep) ==
    IF n = 0 THEN <<>>
    ELSE masked(n - 1, keep) \o (IF (n - 1) \in keep THEN <<n - 1>> ELSE <<>>)

\* lines 100-106: the selection of process_files
select_rows(df1, search_option, start_row, end_row, store_ids) ==
    IF search_option = "rows"
    THEN iloc_slice(Len(df1), start_row - 2, end_row - 1)
    ELSE IF search_option = "store_id"
    THEN LET ids == Range(store_id_list(store_ids))
         IN  masked(Len(df1), {i \in 0..(Len(df1) - 1) : str(df1[i + 1].values[1]) \in ids})
    ELSE <<>>

(***************************************************************************)
(* Placeholder substitution.  A presentation is the sequence of its shapes *)
(* (over all slides, in order); a shape has paragraphs, a paragraph runs,  *)
(* a run its text.  Replacement texts hold no backslash, so re.sub inserts *)
(* them literally.                                                         *)
(***************************************************************************)
Letters == <<"A", "B", "C", "D", "E", "F", "G", "H", "I", "J", "K", "L", "M",
             "N", "O", "P", "Q", "R", "S", "T", "U", "V", "W", "X", "Y", "Z">>

\* chr(65 + col_idx), for col_idx < 26
column_letter(col_idx) == Letters[col_idx + 1]

\* the text the pattern rf"\{{{column_letter}\}}" matches
token(letter) == <<"{", letter, "}">>

\* re.sub(pattern, repl, text) for a literal pattern: leftmost, non-overlapping
RECURSIVE re_sub(_, _, _)
re_sub(pattern, repl, text) ==
    IF Len(text) < Len(pattern) THEN text
    ELSE IF SubSeq(text, 1, Len(pattern)) = pattern
    THEN repl \o re_sub(pattern, repl, SubSeq(text, Len(pattern) + 1, Len(text)))
    ELSE <<text[1]>> \o re_sub(pattern, repl, Tail(text))

RECURSIVE concat(_)
concat(seqs) == IF seqs = <<>> THEN <<>> ELSE seqs[1] \o concat(Tail(seqs))

\* shape.text: the paragraphs' texts joined by a newline
shape_text(shape) ==
    join(<<"\n">>, [p \in 1..Len(shape.paragraphs) |-> concat(shape.paragraphs[p])])

update_shape(shape, pattern, formatted_text) ==
    IF shape.has_text_frame /\ shape_text(shape) # <<>> /\ Contains(shape_text(shape), pattern)
    THEN [shape EXCEPT !.paragraphs =
            [p \in 1..Len(shape.paragraphs) |->
                [r \in 1..Len(shape.paragraphs[p]) |->
                    re_sub(pattern, formatted_text, shape.paragraphs[p][r])]]]
    ELSE shape

\* update_text_of_textbox: the presentation after the call
update_text_of_textbox(presentation, letter, new_text, cell_format) ==
    LET formatted_text == format_cell_value(new_text, cell_format, TRUE)
    IN  [s \in 1..Len(presentation) |-> update_shape(presentation[s], token(letter), formatted_text)]

\* lines 154-159 of process_row: the columns substituted in column order, from col_idx
\* on; formats[k] is the number format of the cell at column k's coordinate
RECURSIVE substitute_columns(_, _, _, _)
substitute_columns(presentation, row, formats, col_idx) ==
    IF col_idx >= Len(row.values) THEN presentation
    ELSE substitute_columns(
            update_text_of_textbox(presentation, column_letter(col_idx),
                                   row.values[col_idx + 1], formats[col_idx + 1]),
            row, formats, col_idx + 1)

(***************************************************************************)
(* State.  call records the last call of one of the pure functions; the    *)
(* other variables are the state of a run of process_files.                *)
(***************************************************************************)
VARIABLES
    call,           \* the last pure call: its function, arguments and result
    pc,             \* the driver's position: "idle", "rows" (in the row loop), "done"
    args,           \* the arguments of process_files
    fs,             \* the file system: path -> content
    df_selected,    \* the selected labels, in order
    current_file,   \* rows processed so far
    shown,          \* the messages shown to the user (st.error, st.info, ...)
    zip_file,       \* the archive of the run folder, once made
    convert_log,    \* per processed row, the converter's outcome
    clock,          \* the wall clock, in whole seconds
    runs            \* the runs of process_files of the sessions of one server process

vars == <<call, pc, args, fs, df_selected, current_file, shown, zip_file, convert_log, clock, runs>>

driver_vars == <<pc, args, fs, df_selected, current_file, shown, zip_file, convert_log, clock, runs>>

run_vars == <<clock, runs>>

NoCall == [fn |-> "none"]

NoArgs == [search_option |-> "none"]

NoZip == [made |-> FALSE, entries |-> {}]

\* the sessions of the server process; each makes one run of process_files
RunIds == {"first", "second"}

\* a session that has not called process_files yet
NoRun ==
    [pc |-> "idle", args |-> NoArgs, folder_name |-> "", df_selected |-> <<>>,
     current_file |-> 0, produced |-> {}, zip_file |-> NoZip]

DriverIdle ==
    /\ pc = "idle"
    /\ args = NoArgs
    /\ fs = <<>>
    /\ df_selected = <<>>
    /\ current_file = 0
    /\ shown = {}
    /\ zip_file = NoZip
    /\ convert_log = <<>>
    /\ clock = 0
    /\ runs = [r \in RunIds |-> NoRun]

\* the sequences over S of length at most n
BSeq(S, n) == UNION {[1..m -> S] : m \in 0..n}

(***************************************************************************)
(* The cell formatter on its own: every value of a bounded set under every *)
(* bounded number format.                                                  *)
(***************************************************************************)
ExampleMillis == {5000, 5100, 5250, 9999, -2000, -5250}

Millis == (-MaxMilli..MaxMilli) \cup ExampleMillis

SampleTexts == {<<>>, <<"E", "a", "s", "t">>, <<"5", ".", "2", "5">>, <<"1", "0", "%">>}

SampleDates == {PyDate(5, 1, 2024), PyDate(31, 12, 1999)}

CellValues ==
    {PyNone, PyNaN} \cup {PyFloat(k) : k \in Millis} \cup {PyInt(i) : i \in {-2, 0, 5, 12}}
        \cup {PyStr(t) : t \in SampleTexts} \cup SampleDates

FormatChars == {"€", "$", "£", "%", "0"}

Formats == BSeq(FormatChars, MaxFmtLen)

FormatCell ==
    /\ call = NoCall
    /\ \E value \in CellValues, cell_format \in Formats :
          call' = [fn |-> "format_cell_value", value |-> value, cell_format |-> cell_format,
                   ret |-> format_cell_value(value, cell_format, TRUE)]
    /\ UNCHANGED driver_vars

InitPure == call = NoCall /\ DriverIdle

SpecFormat == InitPure /\ [][FormatCell]_vars

(***************************************************************************)
(* The file-name builder on its own.                                       *)
(***************************************************************************)
\* the chosen columns of a file name are lists of at most MaxChosen names
MaxChosen == 3

NameRowIndex == <<"ColA", "ColB">>

NameColumns == {"ColA", "ColB", "ColC"}

NameValues ==
    {PyFloat(5000), PyFloat(5250), PyFloat(-2000), PyFloat(0), PyInt(7), PyNaN,
     PyStr(<<"E", "a", "s", "t">>), PyStr(<<>>), PyStr(<<"a", "_", "b">>)}

NameRows == {[index |-> NameRowIndex, values |-> v] : v \in [1..2 -> NameValues]}

Filename ==
    /\ call = NoCall
    /\ \E row \in NameRows, selected_columns \in BSeq(NameColumns, MaxChosen) :
          call' = [fn |-> "get_filename_from_selection", row |-> row,
                   selected_columns |-> selected_columns,
                   ret |-> get_filename_from_selection(row, selected_columns)]
    /\ UNCHANGED driver_vars

SpecFilename == InitPure /\ [][Filename]_vars

(***************************************************************************)
(* The row selector on its own.                                            *)
(***************************************************************************)
\* tables of at most MaxSelRows data rows
MaxSelRows == 3
\* identifier requests of at most MaxIdsLen characters
MaxIdsLen == 4

TableIndex == <<"Store ID", "Sales">>

\* the first column holds texts or, when it is not named 'Store ID', numbers
FirstColumnValues == {PyStr(<<"A">>), PyInt(1), PyStr(<<"A", " ">>), PyStr(<<>>)}

SelRows == {[index |-> TableIndex, values |-> <<id, PyFloat(5000)>>] : id \in FirstColumnValues}

IdChars == {"A", "1", " ", ","}

\* what the form hands over: two integers >= 1 by rows, a text by store_id
SelParams ==
    {[search_option |-> "rows", start_row |-> a, end_row |-> b, store_ids |-> <<>>] :
        a \in 1..(MaxSelRows + 2), b \in 1..(MaxSelRows + 2)}
    \cup {[search_option |-> "store_id", start_row |-> 0, end_row |-> 0, store_ids |-> t] :
        t \in BSeq(IdChars, MaxIdsLen)}
    \cup {[search_option |-> "other", start_row |-> 0, end_row |-> 0, store_ids |-> <<>>]}

Select ==
    /\ call = NoCall
    /\ \E df1 \in BSeq(SelRows, MaxSelRows), p \in SelParams :
          call' = [fn |-> "select_rows", df1 |-> df1, search_option |-> p.search_option,
                   start_row |-> p.start_row, end_row |-> p.end_row, store_ids |-> p.store_ids,
                   ret |-> select_rows(df1, p.search_option, p.start_row, p.end_row, p.store_ids)]
    /\ UNCHANGED driver_vars

SpecSelect == InitPure /\ [][Select]_vars

(***************************************************************************)
(* The substitution loop of process_row on its own.                        *)
(***************************************************************************)
\* rows of at most MaxSubstCols columns
MaxSubstCols == 2

TextShape(paragraphs) == [has_text_frame |-> TRUE, paragraphs |-> paragraphs]

\* a picture, a table: no text frame
OtherShape == [has_text_frame |-> FALSE, paragraphs |-> <<>>]

SampleShapes ==
    {TextShape(<<<< <<"R", ":", " ", "{", "A", "}", " ", "m">> >>>>),
     TextShape(<<<< <<"{", "A", "}", "{", "B", "}">> >>>>),
     TextShape(<<<< <<"{">>, <<"A", "}">> >>>>),
     TextShape(<<<< <<"{", "Z", "}", "{", "A", "}">> >>>>),
     TextShape(<<<< <<"{", "A", "}", "B", "}">> >>>>),
     TextShape(<<<< <<"{", "B", "}">> >>, << <<"x", "{", "A", "}">>, <<"{", "A", "}">> >>>>),
     OtherShape}

SubstValues ==
    {PyStr(<<"x">>), PyStr(<<>>), PyStr(<<"{", "B", "}">>), PyStr(<<"{">>),
     PyStr(<<"{", "A", "}">>), PyFloat(5250)}

SubstRows ==
    UNION {{[index |-> [i \in 1..n |-> column_letter(i - 1)], values |-> v] :
                v \in [1..n -> SubstValues]} : n \in 1..MaxSubstCols}

PlainFormats(n) == [i \in 1..n |-> <<"0">>]

Substitute ==
    /\ call = NoCall
    /\ \E presentation \in BSeq(SampleShapes, 2) \ {<<>>}, row \in SubstRows :
          call' = [fn |-> "substitute_columns", presentation |-> presentation, row |-> row,
                   formats |-> PlainFormats(Len(row.values)),
                   ret |-> substitute_columns(presentation, row,
                                              PlainFormats(Len(row.values)), 0)]
    /\ UNCHANGED driver_vars

SpecSubst == InitPure /\ [][Substitute]_vars

(***************************************************************************)
(* The batch driver: process_files and process_row on a file system.       *)
(* A path is a folder and a file name; a file holds a document (a          *)
(* presentation, or the PDF made of one) or the uploaded workbook.         *)
(***************************************************************************)
\* the uploaded workbook has at most MaxRows data rows
MaxRows == 3

Path(dir, name) == [dir |-> dir, name |-> name]

PptxFile(presentation) == [type |-> "pptx", body |-> presentation]

PdfFile(presentation) == [type |-> "pdf", body |-> presentation]

XlsxFile(sheet) == [type |-> "xlsx", body |-> sheet]

\* folder_name = f"Presentations_{timestamp}"
folder_name == "Presentations_<timestamp>"

temp_folder == "temp_files"

\* ppt_file.name and excel_file.name
TemplateName == <<"t", ".", "p", "p", "t", "x">>

WorkbookName == <<"d", ".", "x", "l", "s", "x">>

ppt_template_path == Path(temp_folder, TemplateName)

excel_file_path == Path(temp_folder, WorkbookName)

\* f.write(...), presentation.save(path): the file system with the file written
write_file(files, path, content) == (path :> content) @@ files

\* os.remove(path)
os_remove(files, path) == [q \in (DOMAIN files) \ {path} |-> files[q]]

\* os.listdir(folder)
listdir(files, dir) == {q \in DOMAIN files : q.dir = dir}

General == <<"G", "e", "n", "e", "r", "a", "l">>

Cell(value, number_format) == [value |-> value, number_format |-> number_format]

\* pd.read_excel: an empty cell arrives as NaN, every other value as it is
pandas_value(value) == IF value.kind = "none" THEN PyNaN ELSE value

\* df1 = pd.read_excel(excel_file_path, sheet_name=0, dtype={'Store ID': str})
read_excel(sheet) ==
    [i \in 1..Len(sheet) |->
        [index |-> TableIndex,
         values |-> [c \in 1..Len(sheet[i]) |-> pandas_value(sheet[i][c].value)]]]

\* ws[f"{column_letter}{sheet_row}"].number_format; a cell never written is General
number_format(sheet, col_idx, sheet_row) ==
    IF sheet_row - 1 \in DOMAIN sheet /\ col_idx + 1 \in DOMAIN sheet[sheet_row - 1]
    THEN sheet[sheet_row - 1][col_idx + 1].number_format
    ELSE General

\* convert_pptx_to_pdf: LibreOffice writes <stem>.pdf beside the input, or fails and
\* the failure is printed
convert_pptx_to_pdf(files, pptx_path, pdf_path, converter_ok) ==
    IF converter_ok THEN write_file(files, pdf_path, PdfFile(files[pptx_path].body)) ELSE files

\* process_row with presentation.save(presentation_path) after the save of the document
process_row_overwriting_template(files, presentation_path, row, index, selected_columns, output_folder, output_format, sheet, converter_ok) ==
    LET presentation == files[presentation_path].body
        formats == [k \in 1..Len(row.values) |-> number_format(sheet, k - 1, index + 2)]
        substituted == substitute_columns(presentation, row, formats, 0)
        file_name == get_filename_from_selection(row, selected_columns)
        pptx_path == Path(output_folder, file_name \o <<".", "p", "p", "t", "x">>)
        pdf_path == Path(output_folder, file_name \o <<".", "p", "d", "f">>)
        saved == write_file(write_file(files, pptx_path, PptxFile(substituted)),
                            presentation_path, PptxFile(substituted))
    IN  IF output_format = "PDF"
        THEN os_remove(convert_pptx_to_pdf(saved, pptx_path, pdf_path, converter_ok), pptx_path)
        ELSE saved

\* process_row: the file system after the call
process_row(files, presentation_path, row, index, selected_columns, output_folder, output_format, sheet, converter_ok) ==
    LET presentation == files[presentation_path].body
        formats == [k \in 1..Len(row.values) |-> number_format(sheet, k - 1, index + 2)]
        substituted == substitute_columns(presentation, row, formats, 0)
        file_name == get_filename_from_selection(row, selected_columns)
        pptx_path == Path(output_folder, file_name \o <<".", "p", "p", "t", "x">>)
        pdf_path == Path(output_folder, file_name \o <<".", "p", "d", "f">>)
        saved == write_file(files, pptx_path, PptxFile(substituted))
    IN  IF output_format = "PDF"
        THEN os_remove(convert_pptx_to_pdf(saved, pptx_path, pdf_path, converter_ok), pptx_path)
        ELSE saved

\* the check of lines 108-111 left out
no_files_unchecked(total_files) == FALSE

\* total_files == 0
no_files(total_files) == total_files = 0

\* what the form and the uploads hand to process_files
Template ==
    <<TextShape(<<<< <<"{", "A", "}">>, <<":", "{", "B", "}", "{", "Z", "}">> >>>>)>>

SheetRows ==
    {<<Cell(PyStr(<<"1">>), General), Cell(PyFloat(5250), <<"0">>)>>,
     <<Cell(PyStr(<<"2">>), General), Cell(PyFloat(5000), <<"€">>)>>,
     <<Cell(PyStr(<<"1">>), General), Cell(PyStr(<<"{", "A", "}">>), General)>>,
     <<Cell(PyStr(<<"3">>), General), Cell(PyNone, General)>>}

DriverRequests ==
    {<<"1">>, <<"2", ",", " ", "1">>, <<"9">>}

DriverParams ==
    {[search_option |-> "rows", start_row |-> a, end_row |-> b, store_ids |-> <<>>] :
        a \in 1..(MaxRows + 1), b \in 1..(MaxRows + 1)}
    \cup {[search_option |-> "store_id", start_row |-> 0, end_row |-> 0, store_ids |-> t] :
        t \in DriverRequests}
    \cup {[search_option |-> "other", start_row |-> 0, end_row |-> 0, store_ids |-> <<>>]}

DriverArgs ==
    {[ppt_file |-> Template, excel_file |-> sheet, search_option |-> p.search_option,
      start_row |-> p.start_row, end_row |-> p.end_row, store_ids |-> p.store_ids,
      selected_columns |-> cols, output_format |-> fmt] :
        sheet \in BSeq(SheetRows, MaxRows), p \in DriverParams,
        cols \in {<<"Store ID">>, <<"Store ID", "Sales">>}, fmt \in {"PPTX", "PDF"}}

\* lines 83-89: the uploads copied to the staging folder
staged(files, a) ==
    write_file(write_file(files, ppt_template_path, PptxFile(a.ppt_file)),
               excel_file_path, XlsxFile(a.excel_file))

\* the loaded table of the run
df1_of(a) == read_excel(a.excel_file)

\* process_files, lines 76-121: stage the uploads, load, select; an empty selection is
\* reported and ends the run
ProcessFilesBegin ==
    /\ pc = "idle"
    /\ \E a \in DriverArgs :
          LET sel == select_rows(df1_of(a), a.search_option, a.start_row, a.end_row, a.store_ids)
          IN  /\ args' = a
              /\ fs' = staged(fs, a)
              /\ df_selected' = sel
              /\ IF no_files(Len(sel))
                 THEN pc' = "done" /\ shown' = shown \cup {"error: no files to generate"}
                 ELSE pc' = "rows" /\ shown' = shown \cup {"info: estimated time"}
    /\ UNCHANGED <<call, current_file, zip_file, convert_log>>
    /\ UNCHANGED run_vars

\* process_files, lines 96-98: the workbook cannot be read
ProcessFilesReadFault ==
    /\ pc = "idle"
    /\ \E a \in DriverArgs :
          /\ args' = a
          /\ fs' = staged(fs, a)
    /\ pc' = "done"
    /\ shown' = shown \cup {"error: reading the workbook"}
    /\ UNCHANGED <<call, df_selected, current_file, zip_file, convert_log>>
    /\ UNCHANGED run_vars

\* one turn of the loop of lines 123-131: process_row on the next selected row; in PDF
\* mode the external converter succeeds or fails
ProcessRow ==
    /\ pc = "rows"
    /\ current_file < Len(df_selected)
    /\ \E converter_ok \in BOOLEAN :
          LET index == df_selected[current_file + 1]
              row == df1_of(args)[index + 1]
          IN  /\ args.output_format = "PPTX" => converter_ok
              /\ fs' = process_row(fs, ppt_template_path, row, index, args.selected_columns,
                                   folder_name, args.output_format, args.excel_file,
                                   converter_ok)
              /\ convert_log' = Append(convert_log,
                                       IF args.output_format # "PDF" THEN "none"
                                       ELSE IF converter_ok THEN "ok" ELSE "failed")
    /\ current_file' = current_file + 1
    /\ shown' = shown \cup {"progress"}
    /\ UNCHANGED <<call, pc, args, df_selected, zip_file>>
    /\ UNCHANGED run_vars

\* lines 133-146: the run folder archived and offered for download
MakeArchive ==
    /\ pc = "rows"
    /\ current_file = Len(df_selected)
    /\ zip_file' = [made |-> TRUE,
                    entries |-> {<<q.name, fs[q]>> : q \in listdir(fs, folder_name)}]
    /\ pc' = "done"
    /\ shown' = shown \cup {"download", "finished"}
    /\ UNCHANGED <<call, args, fs, df_selected, current_file, convert_log>>
    /\ UNCHANGED run_vars

Init == call = NoCall /\ DriverIdle

Next == ProcessFilesBegin \/ ProcessFilesReadFault \/ ProcessRow \/ MakeArchive

Spec == Init /\ [][Next]_vars

(***************************************************************************)
(* Two runs of process_files in one server process, one per session.  The  *)
(* runs share the working directory, so fs is the one file system of both; *)
(* each run keeps its own locals (folder_name, wb and df1, df_selected,    *)
(* current_file).  The steps of the two runs interleave freely, which      *)
(* covers a run started after the other has finished.                      *)
(***************************************************************************)
\* the clock is followed for MaxClock seconds
MaxClock == 2

\* datetime.now().strftime("%Y%m%d_%H%M%S"): the time cut to the whole second
strftime(seconds) == ToString(seconds)

\* folder_name = f"Presentations_{timestamp}"
folder_name_at(seconds) == "Presentations_" \o strftime(seconds)

RunSheets ==
    {<<<<Cell(PyStr(<<"1">>), General), Cell(PyFloat(5250), <<"0">>)>>,
       <<Cell(PyStr(<<"2">>), General), Cell(PyFloat(5000), <<"€">>)>>>>,
     <<<<Cell(PyStr(<<"2">>), General), Cell(PyFloat(1000), <<"0">>)>>,
       <<Cell(PyStr(<<"3">>), General), Cell(PyFloat(2000), <<"0">>)>>>>}

RunParams ==
    {[search_option |-> "rows", start_row |-> 2, end_row |-> 3, store_ids |-> <<>>],
     [search_option |-> "store_id", start_row |-> 0, end_row |-> 0, store_ids |-> <<"9">>]}

RunArgs ==
    {[ppt_file |-> Template, excel_file |-> sheet, search_option |-> p.search_option,
      start_row |-> p.start_row, end_row |-> p.end_row, store_ids |-> p.store_ids,
      selected_columns |-> <<"Store ID">>, output_format |-> fmt] :
        sheet \in RunSheets, p \in RunParams, fmt \in {"PPTX", "PDF"}}

\* the files a call of process_row leaves behind for its row
documents_written(row, selected_columns, output_folder, output_format, converter_ok) ==
    LET file_name == get_filename_from_selection(row, selected_columns)
    IN  IF output_format # "PDF"
        THEN {Path(output_folder, file_name \o <<".", "p", "p", "t", "x">>)}
        ELSE IF converter_ok
             THEN {Path(output_folder, file_name \o <<".", "p", "d", "f">>)}
             ELSE {}

\* a second of the wall clock passes
Tick ==
    /\ clock < MaxClock
    /\ clock' = clock + 1
    /\ UNCHANGED <<call, pc, args, fs, df_selected, current_file, shown, zip_file, convert_log, runs>>

\* process_files, lines 76-121, of run r: the folder named after the current second is
\* made (exist_ok=True: an existing folder is taken as it is), the uploads are staged,
\* the table is loaded and the rows are selected
RunBegin(r) ==
    /\ runs[r].pc = "idle"
    /\ \E a \in RunArgs :
          LET sel == select_rows(df1_of(a), a.search_option, a.start_row, a.end_row, a.store_ids)
          IN  /\ fs' = staged(fs, a)
              /\ runs' = [runs EXCEPT ![r] =
                            [@ EXCEPT !.pc = IF no_files(Len(sel)) THEN "done" ELSE "rows",
                                      !.args = a,
                                      !.folder_name = folder_name_at(clock),
                                      !.df_selected = sel]]
              /\ shown' = shown \cup {IF no_files(Len(sel)) THEN "error: no files to generate"
                                                           ELSE "info: estimated time"}
    /\ UNCHANGED <<call, pc, args, df_selected, current_file, zip_file, convert_log, clock>>

\* process_files, lines 96-98, of run r: the workbook cannot be read
RunReadFault(r) ==
    /\ runs[r].pc = "idle"
    /\ \E a \in RunArgs :
          /\ fs' = staged(fs, a)
          /\ runs' = [runs EXCEPT ![r] =
                        [@ EXCEPT !.pc = "done", !.args = a,
                                  !.folder_name = folder_name_at(clock)]]
    /\ shown' = shown \cup {"error: reading the workbook"}
    /\ UNCHANGED <<call, pc, args, df_selected, current_file, zip_file, convert_log, clock>>

\* one turn of the loop of lines 123-131 in run r
RunRow(r) ==
    /\ runs[r].pc = "rows"
    /\ runs[r].current_file < Len(runs[r].df_selected)
    /\ \E converter_ok \in BOOLEAN :
          LET run == runs[r]
              index == run.df_selected[run.current_file + 1]
              row == df1_of(run.args)[index + 1]
              after == process_row(fs, ppt_template_path, row, index, run.args.selected_columns,
                                   run.folder_name, run.args.output_format,
                                   run.args.excel_file, converter_ok)
              written == documents_written(row, run.args.selected_columns, run.folder_name,
                                           run.args.output_format, converter_ok)
          IN  /\ run.args.output_format = "PPTX" => converter_ok
              /\ fs' = after
              /\ runs' = [runs EXCEPT ![r] =
                            [@ EXCEPT !.current_file = @ + 1,
                                      !.produced = @ \cup {<<q.name, after[q]>> : q \in written}]]
    /\ shown' = shown \cup {"progress"}
    /\ UNCHANGED <<call, pc, args, df_selected, current_file, zip_file, convert_log, clock>>

\* lines 133-146 in run r: whatever the run's folder holds is archived
RunArchive(r) ==
    /\ runs[r].pc = "rows"
    /\ runs[r].current_file = Len(runs[r].df_selected)
    /\ runs' = [runs EXCEPT ![r] =
                  [@ EXCEPT !.pc = "done",
                            !.zip_file = [made |-> TRUE,
                                          entries |-> {<<q.name, fs[q]>> :
                                                          q \in listdir(fs, runs[r].folder_name)}]]]
    /\ shown' = shown \cup {"download", "finished"}
    /\ UNCHANGED <<call, pc, args, fs, df_selected, current_file, zip_file, convert_log, clock>>

RunStep == \E r \in RunIds : RunBegin(r) \/ RunReadFault(r) \/ RunRow(r) \/ RunArchive(r)

NextRuns == Tick \/ RunStep

SpecRuns == Init /\ [][NextRuns]_vars

(***************************************************************************)
(* Properties of the cell formatter.                                       *)
(***************************************************************************)
EndsWith(s, suffix) ==
    Len(s) >= Len(suffix) /\ SubSeq(s, Len(s) - Len(suffix) + 1, Len(s)) = suffix

DropLast(s, k) == SubSeq(s, 1, Len(s) - k)

Glyphs == {"€", "$", "£"}

HasGlyph(f) == \E i \in DOMAIN f : f[i] \in Glyphs

HasPercent(f) == \E i \in DOMAIN f : f[i] = "%"

Numeric(v) == v.kind \in {"int", "float", "nan"}

DigitChars == {"0", "1", "2", "3", "4", "5", "6", "7", "8", "9"}

\* the text of a bare number: digits, a sign, a decimal point (or Python's "nan")
IsNumberText(s) ==
    \/ s = <<"n", "a", "n">>
    \/ s # <<>> /\ \A i \in DOMAIN s : s[i] \in DigitChars \cup {"-", "."}

DigitValue(c) == CHOOSE i \in 0..9 : DigitChar(i) = c

\* DD-MM-YYYY
IsDateText(s, d) ==
    /\ Len(s) = 10
    /\ s[3] = "-" /\ s[6] = "-"
    /\ \A i \in {1, 2, 4, 5, 7, 8, 9, 10} : s[i] \in DigitChars
    /\ 10 * DigitValue(s[1]) + DigitValue(s[2]) = d[1]
    /\ 10 * DigitValue(s[4]) + DigitValue(s[5]) = d[2]
    /\ 1000 * DigitValue(s[7]) + 100 * DigitValue(s[8]) + 10 * DigitValue(s[9])
            + DigitValue(s[10]) = d[3]

\* C5: format_cell_value applies its rules in priority order: null gives the empty
\* string; a numeric value is rendered as currency when the format holds a currency
\* glyph (even beside a percent marker), else as a percentage when it holds %, else as
\* a plain number, whatever the value; a date is DD-MM-YYYY; anything else is its
\* literal string, whatever the format.
Thm_C5_FormatPriority ==
    call.fn = "format_cell_value" =>
        LET v == call.value
            f == call.cell_format
            out == call.ret
        IN  /\ v.kind = "none" => out = <<>>
            /\ Numeric(v) /\ HasGlyph(f) =>
                  \E g \in Glyphs :
                      /\ \E i \in DOMAIN f : f[i] = g
                      /\ EndsWith(out, <<" ", g>>)
                      /\ IsNumberText(DropLast(out, 2))
            /\ Numeric(v) /\ ~HasGlyph(f) /\ HasPercent(f) =>
                  EndsWith(out, <<"%">>) /\ IsNumberText(DropLast(out, 1))
            /\ Numeric(v) /\ ~HasGlyph(f) /\ ~HasPercent(f) => IsNumberText(out)
            /\ v.kind = "date" => IsDateText(out, v.d)
            /\ v.kind = "str" => out = v.s

\* C5's case: 0.5 under a format holding both % and a currency glyph is currency
Wit_C5_CurrencyBeatsPercent ==
    /\ call.fn = "format_cell_value"
    /\ call.value = PyFloat(500)
    /\ call.cell_format = <<"%", "€">>
    /\ call.ret = <<"0", ".", "5", " ", "€">>

\* a number of t tenths, ".0" stripped
TenthsText(neg, t) ==
    (IF neg THEN <<"-">> ELSE <<>>) \o NatStr(t \div 10)
        \o (IF t % 10 = 0 THEN <<>> ELSE <<".", DigitChar(t % 10)>>)

\* text renders v (in thousandths) rounded to one decimal place, ".0" stripped, a
\* value halfway between two tenths rounding as 5.25 -> 5.3.  Where the sentence
\* leaves a choice (which way a negative half goes, the sign of a negative value
\* that rounds to zero) either rendering is accepted.
RendersRounded(k, text) ==
    LET a == Abs(k)
        up == (a + 50) \div 100
        down == a \div 100
    IN  IF k >= 0 THEN text = TenthsText(FALSE, up)
        ELSE \/ text = TenthsText(up > 0, up)
             \/ up = 0 /\ text = TenthsText(TRUE, 0)
             \/ a % 100 = 50 /\ text = TenthsText(down > 0, down)

\* C6: for every numeric value v and a plain format, format_cell_value(v) is v rounded
\* to one decimal place with a trailing ".0" stripped, a value halfway between two
\* tenths rounding as 5.25 -> "5.3"; with a currency format holding glyph S the result
\* is that plain rendering, a space and S.
Claim_C6_RoundsHalfUp ==
    call.fn = "format_cell_value" /\ call.value.kind = "float" =>
        /\ ~HasGlyph(call.cell_format) /\ ~HasPercent(call.cell_format) =>
              RendersRounded(call.value.n, call.ret)
        /\ HasGlyph(call.cell_format) =>
              \E g \in Glyphs :
                  /\ \E i \in DOMAIN call.cell_format : call.cell_format[i] = g
                  /\ EndsWith(call.ret, <<" ", g>>)
                  /\ RendersRounded(call.value.n, DropLast(call.ret, 2))

(***************************************************************************)
(* Properties of the file-name builder.                                    *)
(***************************************************************************)
\* the string form of a value in a file name: a float without fraction as an integer
NameText(v) == IF v.kind = "float" /\ v.n % 1000 = 0 THEN IntStr(v.n \div 1000) ELSE str(v)

\* the name built column by column: an absent column adds nothing, a present one adds
\* its text, after an underscore when a present column precedes it
RECURSIVE NameOf(_, _)
NameOf(row, cols) ==
    IF cols = <<>> THEN <<>>
    ELSE LET front == SubSeq(cols, 1, Len(cols) - 1)
             last == cols[Len(cols)]
         IN  IF last \notin Range(row.index) THEN NameOf(row, front)
             ELSE IF \E i \in DOMAIN front : front[i] \in Range(row.index)
             THEN NameOf(row, front) \o <<"_">> \o NameText(RowGet(row, last))
             ELSE NameText(RowGet(row, last))

\* C7: get_filename_from_selection joins with underscores, in the chosen order, the
\* string form of each chosen column present in the row, a float without fraction as
\* an integer; absent columns add nothing, no chosen column gives the empty string.
Thm_C7_Filename ==
    call.fn = "get_filename_from_selection" =>
        /\ call.ret = NameOf(call.row, call.selected_columns)
        /\ call.selected_columns = <<>> => call.ret = <<>>

\* C7's case: {ColA: 5.0, ColB: "East"} with [ColA, ColC, ColB] gives "5_East"
Wit_C7_FiveEast ==
    /\ call.fn = "get_filename_from_selection"
    /\ call.row.values = <<PyFloat(5000), PyStr(<<"E", "a", "s", "t">>)>>
    /\ call.selected_columns = <<"ColA", "ColC", "ColB">>
    /\ call.ret = <<"5", "_", "E", "a", "s", "t">>

(***************************************************************************)
(* Properties of the row selector.                                         *)
(***************************************************************************)
StrictlyIncreasing(q) == \A i, j \in DOMAIN q : i < j => q[i] < q[j]

\* C2: by range, for all bounds the form accepts (integers >= 1) with
\* start_row <= end_row, the selected rows are exactly the data rows whose spreadsheet
\* row number (header = 1, first data row = 2) lies in [start_row, end_row], in table
\* order.
Claim_C2_RangeSelection ==
    call.fn = "select_rows" /\ call.search_option = "rows" /\ call.start_row <= call.end_row =>
        /\ StrictlyIncreasing(call.ret)
        /\ Range(call.ret) =
              {i \in 0..(Len(call.df1) - 1) : call.start_row <= i + 2 /\ i + 2 <= call.end_row}

AllSpaces(t) == \A i \in DOMAIN t : t[i] = " "

\* positions a..b of s are one of its comma-separated pieces
IsPiece(s, a, b) ==
    /\ a = 1 \/ s[a - 1] = ","
    /\ b = Len(s) \/ s[b + 1] = ","
    /\ \A i \in a..b : s[i] # ","

\* id is piece without its surrounding whitespace
IsTrimOf(id, piece) ==
    /\ id = <<>> \/ (id[1] # " " /\ id[Len(id)] # " ")
    /\ \E l \in 0..Len(piece) :
          /\ l + Len(id) <= Len(piece)
          /\ AllSpaces(SubSeq(piece, 1, l))
          /\ SubSeq(piece, l + 1, l + Len(id)) = id
          /\ AllSpaces(SubSeq(piece, l + Len(id) + 1, Len(piece)))

\* id is one of the identifiers the comma-separated text s requests
Requested(s, id) ==
    \E a \in 1..(Len(s) + 1), b \in 0..Len(s) :
        a <= b + 1 /\ IsPiece(s, a, b) /\ IsTrimOf(id, SubSeq(s, a, b))

Reverse(q) == [i \in 1..Len(q) |-> q[Len(q) + 1 - i]]

\* C3: by identifier, the selected rows are exactly the rows whose first-column value,
\* as a string, equals a requested identifier after trimming, in table order; the
\* request in another order, or repeated, selects the same ordered rows.
Thm_C3_IdentifierSelection ==
    call.fn = "select_rows" /\ call.search_option = "store_id" =>
        /\ StrictlyIncreasing(call.ret)
        /\ Range(call.ret) =
              {i \in 0..(Len(call.df1) - 1) :
                  Requested(call.store_ids, str(call.df1[i + 1].values[1]))}
        /\ call.ret = select_rows(call.df1, "store_id", 0, 0,
                                  join(<<",">>, Reverse(split(call.store_ids, ","))))
        /\ call.ret = select_rows(call.df1, "store_id", 0, 0,
                                  call.store_ids \o <<",">> \o call.store_ids)

\* C3's case: ids "A", 1, "A " in the table and the request " 1,A" select the first two rows
Wit_C3_TrimmedAnyOrder ==
    /\ call.fn = "select_rows"
    /\ call.search_option = "store_id"
    /\ call.store_ids = <<" ", "1", ",", "A">>
    /\ Len(call.df1) = 3
    /\ call.df1[1].values[1] = PyStr(<<"A">>)
    /\ call.df1[2].values[1] = PyInt(1)
    /\ call.df1[3].values[1] = PyStr(<<"A", " ">>)
    /\ call.ret = <<0, 1>>

(***************************************************************************)
(* Properties of the substitution.                                         *)
(***************************************************************************)
\* one pass over the original text: each token {X}, X the letter of one of the first
\* n columns, gives way to that column's display string; all else stays
RECURSIVE OnePass(_, _)
OnePass(text, displays) ==
    IF text = <<>> THEN <<>>
    ELSE IF /\ Len(text) >= 3
            /\ text[1] = "{" /\ text[3] = "}"
            /\ \E k \in 1..Len(displays) : Letters[k] = text[2]
    THEN displays[CHOOSE k \in 1..Len(displays) : Letters[k] = text[2]]
            \o OnePass(SubSeq(text, 4, Len(text)), displays)
    ELSE <<text[1]>> \o OnePass(Tail(text), displays)

\* C8: after all n <= 26 columns of a row are substituted, every token {X} inside one
\* run, X the letter of column k < n, is replaced by exactly column k's display
\* string, every token without a column is still there, and all other text of every
\* run, the display strings already inserted included, is unchanged.
Claim_C8_TokensReplacedOnce ==
    call.fn = "substitute_columns" =>
        LET n == Len(call.row.values)
            displays == [k \in 1..n |->
                            format_cell_value(call.row.values[k], call.formats[k], TRUE)]
        IN  \A s \in DOMAIN call.presentation :
                /\ DOMAIN call.ret[s].paragraphs = DOMAIN call.presentation[s].paragraphs
                /\ \A p \in DOMAIN call.presentation[s].paragraphs :
                      call.ret[s].paragraphs[p] =
                          [r \in DOMAIN call.presentation[s].paragraphs[p] |->
                              OnePass(call.presentation[s].paragraphs[p][r], displays)]

(***************************************************************************)
(* Properties of the batch driver.                                         *)
(***************************************************************************)
\* the row of the k-th turn of the loop, its label and its file-name base
SelectedLabel(k) == df_selected[k]

SelectedRow(k) == df1_of(args)[SelectedLabel(k) + 1]

BaseName(k) == get_filename_from_selection(SelectedRow(k), args.selected_columns)

PptxPathOf(k) == Path(folder_name, BaseName(k) \o <<".", "p", "p", "t", "x">>)

PdfPathOf(k) == Path(folder_name, BaseName(k) \o <<".", "p", "d", "f">>)

DistinctBases == \A i, j \in DOMAIN df_selected : i # j => BaseName(i) # BaseName(j)

\* C1: when process_files completes on a non-empty selection whose rows have pairwise
\* distinct file-name bases, the output folder, and so the archive made of it, holds
\* exactly one document per selected row, in PPTX and in PDF mode, whatever the
\* converter did.
Claim_C1_OneDocumentPerRow ==
    pc = "done" /\ zip_file.made /\ DistinctBases =>
        /\ Cardinality(listdir(fs, folder_name)) = Len(df_selected)
        /\ Cardinality(zip_file.entries) = Len(df_selected)
        /\ \A k \in DOMAIN df_selected :
              Cardinality({PptxPathOf(k), PdfPathOf(k)} \cap DOMAIN fs) = 1

\* no data row of the loaded table meets the selection criterion
NoRowMatches ==
    LET df1 == df1_of(args)
    IN  CASE args.search_option = "rows" ->
                ~\E i \in 0..(Len(df1) - 1) : args.start_row <= i + 2 /\ i + 2 <= args.end_row
          [] args.search_option = "store_id" ->
                ~\E i \in 0..(Len(df1) - 1) :
                    Requested(args.store_ids, str(df1[i + 1].values[1]))
          [] OTHER -> TRUE

\* C4: when the selection criterion matches no row, or the mode is neither 'rows' nor
\* 'store_id', process_files reports an error and returns without one call of
\* process_row: no document is written to the output folder, no archive is made.
Thm_C4_EmptySelectionAborts ==
    /\ pc # "idle"
    /\ "error: reading the workbook" \notin shown
    /\ NoRowMatches \/ df_selected = <<>>
    => /\ pc = "done"
       /\ "error: no files to generate" \in shown
       /\ current_file = 0
       /\ convert_log = <<>>
       /\ listdir(fs, folder_name) = {}
       /\ DOMAIN fs = {ppt_template_path, excel_file_path}
       /\ ~zip_file.made

\* C4's case: three rows, none with the requested identifier, and the run has ended
Wit_C4_NoMatch ==
    /\ pc = "done"
    /\ args.search_option = "store_id"
    /\ args.store_ids = <<"9">>
    /\ Len(args.excel_file) = 3
    /\ "error: no files to generate" \in shown

\* C9: every selected row's document is made from a fresh instance of the original
\* template: the stored template is never modified by a row, and the document of the
\* row just processed is the uploaded template with that row substituted.
Thm_C9_FreshTemplatePerRow ==
    pc # "idle" =>
        /\ fs[ppt_template_path] = PptxFile(args.ppt_file)
        /\ current_file > 0 =>
              LET k == current_file
                  row == SelectedRow(k)
                  formats == [c \in 1..Len(row.values) |->
                                 number_format(args.excel_file, c - 1, SelectedLabel(k) + 2)]
                  expected == substitute_columns(args.ppt_file, row, formats, 0)
              IN  /\ convert_log[k] = "none" => fs[PptxPathOf(k)] = PptxFile(expected)
                  /\ convert_log[k] = "ok" => fs[PdfPathOf(k)] = PdfFile(expected)

\* C9's case: a second row processed after a different first row, both documents kept
Wit_C9_SecondRow ==
    /\ pc = "rows"
    /\ current_file = 2
    /\ args.output_format = "PPTX"
    /\ SelectedRow(1) # SelectedRow(2)
    /\ PptxPathOf(1) \in DOMAIN fs /\ PptxPathOf(2) \in DOMAIN fs
    /\ fs[PptxPathOf(1)] # fs[PptxPathOf(2)]

\* C10: in PDF mode process_row discards a row's .pptx only when the converter
\* succeeded for that row; when the converter fails the .pptx is still in the output
\* folder after process_row returns.
Claim_C10_PptxKeptOnFailure ==
    current_file > 0 /\ convert_log[current_file] = "failed" =>
        PptxPathOf(current_file) \in DOMAIN fs

(***************************************************************************)
(* The Tools.py variant.  Its process_row formats the cells of the         *)
(* worksheet (openpyxl) instead of the values of the table row, and is     *)
(* handed the loop counter of enumerate instead of the row's label; its    *)
(* formatter takes a cell, keeps the comma of the number format and groups *)
(* thousands; its file name has no integer elision.  The run's locals are  *)
(* the same as in the other variant and are kept in the same variables;    *)
(* current_file counts the loop turns done, which is the counter i of the  *)
(* next turn.                                                              *)
(***************************************************************************)
\* re.sub(r'[^\d.,%€$£]', '', cell_format)
Tools_KeptInFormat == KeptInFormat \cup {","}

Tools_cleaned_format(cell_format) == SelectSeq(cell_format, LAMBDA c : c \in Tools_KeptInFormat)

Pad3(i) == IF i < 10 THEN <<"0", "0">> \o NatStr(i)
           ELSE IF i < 100 THEN <<"0">> \o NatStr(i) ELSE NatStr(i)

\* the digits of a natural number grouped in thousands by commas
RECURSIVE GroupedNatStr(_)
GroupedNatStr(i) ==
    IF i < 1000 THEN NatStr(i) ELSE GroupedNatStr(i \div 1000) \o <<",">> \o Pad3(i % 1000)

\* f"{x:,.1f}"
Tools_Fixed1f(x) ==
    (IF x.neg THEN <<"-">> ELSE <<>>) \o GroupedNatStr(x.tenths \div 10)
        \o <<".", DigitChar(x.tenths % 10)>>

\* f"{round(value, 1):,.1f}".rstrip('0').rstrip('.')
Tools_StrippedNumber(value) ==
    IF value.kind = "nan" THEN <<"n", "a", "n">>
    ELSE rstrip(rstrip(Tools_Fixed1f(round1(value)), {"0"}), {"."})

\* format_cell_value(cell, wb, sheet_name) of Tools.py
Tools_format_cell_value(cell) ==
    IF cell.value.kind = "none" THEN <<>>
    ELSE IF IsNumber(cell.value)
    THEN LET cleaned == Tools_cleaned_format(cell.number_format)
             symbol == currency_symbol(cleaned)
         IN  IF symbol # <<>> THEN Tools_StrippedNumber(cell.value) \o <<" ">> \o symbol
             ELSE IF Contains(cleaned, <<"%">>) THEN PercentText(cell.value)
             ELSE Tools_StrippedNumber(cell.value)
    ELSE IF cell.value.kind = "date"
    THEN Pad2(cell.value.d[1]) \o <<"-">> \o Pad2(cell.value.d[2]) \o <<"-">> \o Pad4(cell.value.d[3])
    ELSE str(cell.value)

\* get_filename_from_selection of Tools.py: str(row[col]) of the chosen columns
Tools_get_filename_from_selection(row, selected_columns) ==
    LET present == SelectSeq(selected_columns, LAMBDA col : RowHas(row, col))
        file_name_parts == [i \in 1..Len(present) |-> str(RowGet(row, present[i]))]
    IN  join(<<"_">>, file_name_parts)

\* update_text_of_textbox(presentation, column_letter, new_text) of Tools.py
Tools_update_text_of_textbox(presentation, letter, new_text) ==
    [s \in 1..Len(presentation) |-> update_shape(presentation[s], token(letter), new_text)]

\* the column names of the workbooks given to Tools.py
Tools_TableIndex == <<"store_id", "Region", "Sales">>

\* df1 = pd.read_excel(xls, sheet_name=0)
Tools_read_excel(sheet) ==
    [i \in 1..Len(sheet) |->
        [index |-> Tools_TableIndex,
         values |-> [c \in 1..Len(sheet[i]) |-> pandas_value(sheet[i][c].value)]]]

\* ws[f"{column_letter}{sheet_row}"]: sheet row 1 is the header; a cell never written is
\* an empty cell
Tools_ws_cell(sheet, col_idx, sheet_row) ==
    IF sheet_row = 1 THEN Cell(PyStr(<<"h", "e", "a", "d", "e", "r">>), General)
    ELSE IF sheet_row - 1 \in DOMAIN sheet /\ col_idx + 1 \in DOMAIN sheet[sheet_row - 1]
    THEN sheet[sheet_row - 1][col_idx + 1]
    ELSE Cell(PyNone, General)

\* lines 93-99 of Tools.py: the selection of process_files
Tools_select_rows(df1, search_option, start_row, end_row, store_ids) ==
    IF search_option = "rows"
    THEN iloc_slice(Len(df1), start_row, end_row + 1)
    ELSE IF search_option = "store_id"
    THEN LET ids == Range(store_id_list(store_ids))
         IN  masked(Len(df1), {i \in 0..(Len(df1) - 1) : str(df1[i + 1].values[1]) \in ids})
    ELSE <<>>

\* the loop of lines 143-151 of Tools.py from column col_idx on: the cell of each column
\* in spreadsheet row sheet_row, formatted and substituted
RECURSIVE Tools_substitute_cells(_, _, _, _, _)
Tools_substitute_cells(presentation, sheet, sheet_row, width, col_idx) ==
    IF col_idx >= width THEN presentation
    ELSE Tools_substitute_cells(
            Tools_update_text_of_textbox(
                presentation, column_letter(col_idx),
                Tools_format_cell_value(Tools_ws_cell(sheet, col_idx, sheet_row))),
            sheet, sheet_row, width, col_idx + 1)

\* process_row of Tools.py: the file system after the call
Tools_process_row(files, presentation_path, row, workbook_path, index, selected_columns, output_folder, output_format, converter_ok) ==
    LET presentation == files[presentation_path].body
        ws == files[workbook_path].body
        substituted == Tools_substitute_cells(presentation, ws, index + 2, Len(row.index), 0)
        file_name == Tools_get_filename_from_selection(row, selected_columns)
        pptx_path == Path(output_folder, file_name \o <<".", "p", "p", "t", "x">>)
        pdf_path == Path(output_folder, file_name \o <<".", "p", "d", "f">>)
        saved == write_file(files, pptx_path, PptxFile(substituted))
    IN  IF output_format = "PDF"
        THEN os_remove(convert_pptx_to_pdf(saved, pptx_path, pdf_path, converter_ok), pptx_path)
        ELSE saved

Tools_Template ==
    <<TextShape(<<<< <<"{", "A", "}">>, <<":", "{", "B", "}", "{", "C", "}">> >>>>)>>

Tools_SheetRows ==
    {<<Cell(PyInt(1), General), Cell(PyStr(<<"N">>), General), Cell(PyFloat(5250), <<"0">>)>>,
     <<Cell(PyInt(2), General), Cell(PyStr(<<"S">>), General), Cell(PyFloat(5000), <<"€">>)>>,
     <<Cell(PyInt(3), General), Cell(PyStr(<<"E">>), General), Cell(PyFloat(100), <<"0", "%">>)>>}

\* the workbooks: store_id is a key, no two rows share it
Tools_Sheets ==
    {sheet \in BSeq(Tools_SheetRows, MaxRows) :
        \A i, j \in DOMAIN sheet : i # j => sheet[i] # sheet[j]}

Tools_Params ==
    {[search_option |-> "rows", start_row |-> a, end_row |-> b, store_ids |-> <<>>] :
        a \in 1..(MaxRows + 1), b \in 1..(MaxRows + 1)}
    \cup {[search_option |-> "store_id", start_row |-> 0, end_row |-> 0, store_ids |-> t] :
        t \in {<<"1">>, <<"2">>, <<"3", ",", " ", "1">>, <<"9">>}}
    \cup {[search_option |-> "other", start_row |-> 0, end_row |-> 0, store_ids |-> <<>>]}

Tools_Args ==
    {[ppt_file |-> Tools_Template, excel_file |-> sheet, search_option |-> p.search_option,
      start_row |-> p.start_row, end_row |-> p.end_row, store_ids |-> p.store_ids,
      selected_columns |-> cols, output_format |-> fmt] :
        sheet \in Tools_Sheets, p \in Tools_Params,
        cols \in {<<"store_id">>, <<"Region", "store_id">>}, fmt \in {"PPTX", "PDF"}}

\* process_files of Tools.py, lines 68-106: stage the uploads, load, select; an empty
\* selection is reported and ends the run
Tools_ProcessFilesBegin ==
    /\ pc = "idle"
    /\ \E a \in Tools_Args :
          LET sel == Tools_select_rows(Tools_read_excel(a.excel_file), a.search_option,
                                       a.start_row, a.end_row, a.store_ids)
          IN  /\ args' = a
              /\ fs' = staged(fs, a)
              /\ df_selected' = sel
              /\ IF no_files(Len(sel))
                 THEN pc' = "done" /\ shown' = shown \cup {"error: no data found"}
                 ELSE pc' = "rows" /\ shown' = shown \cup {"info: estimated time"}
    /\ UNCHANGED <<call, current_file, zip_file, convert_log, clock, runs>>

\* process_files of Tools.py, lines 86-91: the workbook cannot be read
Tools_ProcessFilesReadFault ==
    /\ pc = "idle"
    /\ \E a \in Tools_Args :
          /\ args' = a
          /\ fs' = staged(fs, a)
    /\ pc' = "done"
    /\ shown' = shown \cup {"error: reading the workbook"}
    /\ UNCHANGED <<call, df_selected, current_file, zip_file, convert_log, clock, runs>>

\* one turn of the loop of lines 113-116 of Tools.py: process_row is given the selected
\* row and the counter i of enumerate
Tools_ProcessRow ==
    /\ pc = "rows"
    /\ current_file < Len(df_selected)
    /\ \E converter_ok \in BOOLEAN :
          LET i == current_file
              row == Tools_read_excel(args.excel_file)[df_selected[i + 1] + 1]
          IN  /\ args.output_format = "PPTX" => converter_ok
              /\ fs' = Tools_process_row(fs, ppt_template_path, row, excel_file_path, i,
                                         args.selected_columns, folder_name,
                                         args.output_format, converter_ok)
              /\ convert_log' = Append(convert_log,
                                       IF args.output_format # "PDF" THEN "none"
                                       ELSE IF converter_ok THEN "ok" ELSE "failed")
    /\ current_file' = current_file + 1
    /\ shown' = shown \cup {"progress"}
    /\ UNCHANGED <<call, pc, args, df_selected, zip_file, clock, runs>>

\* lines 118-130 of Tools.py: the run folder archived and offered for download
Tools_MakeArchive ==
    /\ pc = "rows"
    /\ current_file = Len(df_selected)
    /\ zip_file' = [made |-> TRUE,
                    entries |-> {<<q.name, fs[q]>> : q \in listdir(fs, folder_name)}]
    /\ pc' = "done"
    /\ shown' = shown \cup {"download", "finished"}
    /\ UNCHANGED <<call, args, fs, df_selected, current_file, convert_log, clock, runs>>

NextTools ==
    Tools_ProcessFilesBegin \/ Tools_ProcessFilesReadFault \/ Tools_ProcessRow \/ Tools_MakeArchive

SpecTools == Init /\ [][NextTools]_vars

\* C13: in the Tools.py variant, for every selection, the document of the k-th selected
\* row shows the formatted cells of the spreadsheet row that selected row came from, the
\* same row that names the file: the document just written, named after the selected
\* row, is the template with the cells of spreadsheet row label + 2 substituted.
Claim_C13_SelectedRowIsTheRowRead ==
    (pc # "idle" /\ current_file > 0) =>
        LET k == current_file
            label == df_selected[k]
            row == Tools_read_excel(args.excel_file)[label + 1]
            base == Tools_get_filename_from_selection(row, args.selected_columns)
            expected == Tools_substitute_cells(args.ppt_file, args.excel_file, label + 2,
                                               Len(row.index), 0)
        IN  /\ convert_log[k] = "none" =>
                  fs[Path(folder_name, base \o <<".", "p", "p", "t", "x">>)] = PptxFile(expected)
            /\ convert_log[k] = "ok" =>
                  fs[Path(folder_name, base \o <<".", "p", "d", "f">>)] = PdfFile(expected)

\* the table row with None, the formatter's null value, wherever the cell of the
\* spreadsheet row is empty
NullWhereEmpty(row, sheet_row) ==
    [row EXCEPT !.values = [c \in DOMAIN row.values |->
                               IF sheet_row[c].value = PyNone THEN PyNone ELSE row.values[c]]]

\* C12: for every selected row, a cell that is empty in the spreadsheet is substituted
\* into the document as the empty string: the value the driver hands to the formatter
\* for it falls under the null rule, so the document of the row just processed is the
\* template substituted with the row in which the empty cells are null.
Claim_C12_EmptyCellShowsNothing ==
    (pc # "idle" /\ current_file > 0) =>
        LET k == current_file
            label == SelectedLabel(k)
            row == NullWhereEmpty(SelectedRow(k), args.excel_file[label + 1])
            formats == [c \in 1..Len(row.values) |->
                           number_format(args.excel_file, c - 1, label + 2)]
            expected == substitute_columns(args.ppt_file, row, formats, 0)
        IN  /\ \A c \in DOMAIN row.values :
                  args.excel_file[label + 1][c].value = PyNone =>
                      format_cell_value(SelectedRow(k).values[c], formats[c], TRUE) = <<>>
            /\ convert_log[k] = "none" => fs[PptxPathOf(k)] = PptxFile(expected)
            /\ convert_log[k] = "ok" => fs[PdfPathOf(k)] = PdfFile(expected)

(***************************************************************************)
(* C11: any two runs of process_files, one after the other or interleaved, *)
(* write to distinct output folders, so the output folder of a run and its *)
(* archive hold only the documents that run produced.                      *)
(***************************************************************************)
Started(r) == runs[r].pc # "idle"

Claim_C11_RunsOwnTheirFolders ==
    /\ \A r, t \in RunIds :
          r # t /\ Started(r) /\ Started(t) => runs[r].folder_name # runs[t].folder_name
    /\ \A r \in RunIds :
          Started(r) =>
              \A q \in listdir(fs, runs[r].folder_name) : <<q.name, fs[q]>> \in runs[r].produced
    /\ \A r \in RunIds :
          runs[r].zip_file.made => runs[r].zip_file.entries \subseteq runs[r].produced

====
